---- MODULE Spec2Model ----
(***************************************************************************)
(* Model of src/index.js: a socket.io gateway that keeps one               *)
(* whatsapp-web.js Client per session id in the table `clients`, a         *)
(* session table `sessions` mirrored to ./sessions.json, and handlers for  *)
(* get-qr, send-message, send-media, reconnect-session, destroy-session    *)
(* and remove_unwanted_session.                                            *)
(*                                                                         *)
(* Strings the code inspects character by character (session ids, phone    *)
(* numbers, file paths) are sequences of one-character strings.            *)
(***************************************************************************)
EXTENDS Integers, Sequences, FiniteSets, TLC

(* ------------------------------ bounds --------------------------------- *)
\* engine Client objects constructed over one run of the model
MaxClients == 2
\* destroy timers pending at the same time
MaxTimers == 2
\* sends queued on the requester's socket over one process lifetime
MaxQueue == 1

(* --------------------------- input domains ----------------------------- *)
EmptyId == <<>>
SessionA == <<"s", "e", "s", "s", "i", "o", "n", "_", "a">>
XSession == <<"x", "s", "e", "s", "s", "i", "o", "n", "_">>

\* session ids a request may carry
RequestIds == {SessionA}
\* every key the tables may hold: XSession comes from the file on disk,
\* '' from the disconnected handler
AllIds == {SessionA, XSession, EmptyId}
\* key enumeration order of the for-in loop
IdOrder == <<SessionA, XSession, EmptyId>>

Undef == <<"undefined">>
Numbers == {<<>>, <<"1">>, <<"1", "2">>, <<"1", "a">>, <<"+", "1">>}
MediaNumbers == {<<"1", "2">>, <<"1", "a">>}
Base64s == {Undef, <<>>, <<"Q", "Q">>}
FilePaths == {Undef, <<>>, <<"h", "t", "t", "p", ":", "x">>, <<"/", "x">>}
Messages == {Undef, <<"h", "i">>}
\* what the engine's sendMessage does: resolves, or rejects with a message
Outcomes == {"ok", "Session closed", "page has been closed", "other"}

(* ------------------------------ state ---------------------------------- *)
VARIABLES
    up,        \* the node process is running
    sessions,  \* let sessions: id -> NoRecord | Unauth | Auth
    clients,   \* let clients: id -> Client object (0 = no entry)
    objs,      \* the Client objects constructed so far: session id and engine state
    file,      \* ./sessions.json
    timers,    \* pending setTimeout callbacks of destroy-session, in firing order
    queue,     \* the socket.once('reconnected') listeners of queued sends, oldest first
    lastOp     \* the handler that ran last, its input and what it did

vars == <<up, sessions, clients, objs, file, timers, queue, lastOp>>

NoRecord == "none"
Unauth == "unauthenticated"
Auth == "authenticated"

ClientIds == 1..MaxClients
NoObj == [sid |-> EmptyId, st |-> "unused"]
\* an object nothing refers to any more (destroyed, or lost with its process)
Gone == [sid |-> EmptyId, st |-> "gone"]

(* --------------------------- pure functions ---------------------------- *)
\* JSON.stringify(sessions): the text holds one member per own key
Stringify(s) ==
    [kind |-> "json",
     doc |-> {<<id, s[id] = Auth>> : id \in {i \in AllIds : s[i] # NoRecord}}]

\* JSON.parse(readFileSync(...)) with the catch that falls back to {}
Load(f) ==
    IF f.kind = "json"
    THEN [id \in AllIds |->
            IF <<id, TRUE>> \in f.doc THEN Auth
            ELSE IF <<id, FALSE>> \in f.doc THEN Unauth
            ELSE NoRecord]
    ELSE [id \in AllIds |-> NoRecord]

RECURSIVE AllDigits(_)
AllDigits(s) ==
    IF s = <<>> THEN TRUE
    ELSE Head(s) \in {"0", "1", "2", "3", "4", "5", "6", "7", "8", "9"} /\ AllDigits(Tail(s))

\* /^\d+/.test(number): the pattern without its end anchor
IsPhoneNumberUnanchored(number) ==
    Len(number) >= 1 /\ Head(number) \in {"0", "1", "2", "3", "4", "5", "6", "7", "8", "9"}

\* /^\d+$/.test(number)
IsPhoneNumber(number) == Len(number) >= 1 /\ AllDigits(number)

StartsWith(s, p) == Len(s) >= Len(p) /\ SubSeq(s, 1, Len(p)) = p

SessionPrefix == <<"s", "e", "s", "s", "i", "o", "n", "_">>
\* /session_/.test(sessionId): the pattern without its start anchor
ValidSessionPatternUnanchored(id) ==
    \E i \in 1..Len(id) : StartsWith(SubSeq(id, i, Len(id)), SessionPrefix)

\* /^session_/.test(sessionId)
ValidSessionPattern(id) == StartsWith(id, SessionPrefix)

\* JavaScript truthiness of a string-or-undefined field
Truthy(x) == x # Undef /\ x # <<>>

HttpPrefix == <<"h", "t", "t", "p">>
\* the same choice with filePath tested before base64Data
MediaPathFileFirst(base64Data, filePath) ==
    IF Truthy(filePath)
    THEN IF StartsWith(filePath, HttpPrefix) THEN "url" ELSE "file"
    ELSE IF Truthy(base64Data) THEN "inline" ELSE "text"

\* which MessageMedia construction path send-media takes
MediaPath(base64Data, filePath) ==
    IF Truthy(base64Data) THEN "inline"
    ELSE IF Truthy(filePath)
         THEN IF StartsWith(filePath, HttpPrefix) THEN "url" ELSE "file"
         ELSE "text"

(* --------------------------- process start ----------------------------- *)
\* documents that may lie on disk when the process first starts
InitialFiles ==
    {[kind |-> "absent", doc |-> {}],
     [kind |-> "corrupt", doc |-> {}],
     [kind |-> "json", doc |-> {<<SessionA, TRUE>>, <<XSession, FALSE>>}]}

\* the record every handler leaves behind in lastOp
Op(kind, sid) ==
    [kind |-> kind, sid |-> sid, client |-> 0, number |-> Undef,
     base64Data |-> Undef, filePath |-> Undef, message |-> Undef,
     engine |-> "none", notify |-> "none", bcast |-> "none", how |-> "none",
     removed |-> {}, after |-> "none", calls |-> <<>>]

Init ==
    /\ up = TRUE
    /\ file \in InitialFiles
    /\ sessions = Load(file)
    /\ clients = [id \in AllIds |-> 0]
    /\ objs = [c \in ClientIds |-> NoObj]
    /\ timers = <<>>
    /\ queue = <<>>
    /\ lastOp = Op("start", EmptyId)

(* ------------------------ createClient / initializeClient -------------- *)
Live(o) == o.st \in {"init", "open", "ready"}

\* client.pupBrowser is set once the first launch has completed
HasBrowser(o) == o.st \in {"open", "ready", "destroyed"}

Unused(os) == {c \in ClientIds : os[c].st = "unused"}
NextClient(os) == CHOOSE c \in Unused(os) : \A d \in Unused(os) : c <= d

\* new Client({...}) with its event handlers attached
CreateClient(sessionId) == [sid |-> sessionId, st |-> "created"]

\* client.initialize(): starts a browser launch, asynchronously; a client
\* that already has a browser keeps it and is not ready until 'ready' fires
Initialize(o) == [o EXCEPT !.st = IF HasBrowser(o) THEN "open" ELSE "init"]

\* initializeClient without its `if (clients[sessionId])` test
InitializeClientAlwaysNew(sessionId, S) ==
    IF Unused(S.objs) = {}
    THEN [S EXCEPT !.how = "initialize-again"]
    ELSE LET c == NextClient(S.objs)
             ss == [S.sessions EXCEPT ![sessionId] = Unauth]
         IN [S EXCEPT !.clients[sessionId] = c,
                      !.objs[c] = Initialize(CreateClient(sessionId)),
                      !.sessions = ss,
                      !.file = Stringify(ss),
                      !.how = IF S.clients[sessionId] = 0 THEN "created" ELSE "initialize-again"]

\* initializeClient(sessionId) applied to the tables S
InitializeClient(sessionId, S) ==
    IF S.clients[sessionId] # 0
    THEN [S EXCEPT !.objs[S.clients[sessionId]] = Initialize(@),
                   !.bcast = "reconnect-status",
                   !.how = "initialize-again"]
    ELSE LET c == NextClient(S.objs)
             ss == [S.sessions EXCEPT ![sessionId] = Unauth]
         IN [S EXCEPT !.clients[sessionId] = c,
                      !.objs[c] = Initialize(CreateClient(sessionId)),
                      !.sessions = ss,
                      !.file = Stringify(ss),
                      !.how = "created"]

\* initializeClient can run here: either it reuses, or an object is left to model the new client
CanInitialize(sessionId) == clients[sessionId] # 0 \/ Unused(objs) # {}

Tables == [clients |-> clients, objs |-> objs, sessions |-> sessions, file |-> file,
           bcast |-> "none", how |-> "none"]

Commit(S) ==
    /\ clients' = S.clients
    /\ objs' = S.objs
    /\ sessions' = S.sessions
    /\ file' = S.file

(* ------------------------------ requests -------------------------------- *)
GetQr(sessionId) ==
    /\ up
    /\ CanInitialize(sessionId)
    /\ LET S == IF clients[sessionId] = 0 THEN InitializeClient(sessionId, Tables) ELSE Tables
       IN /\ Commit(S)
          /\ lastOp' = [Op("get-qr", sessionId) EXCEPT
                          !.client = S.clients[sessionId],
                          !.how = S.how, !.bcast = S.bcast,
                          !.notify = IF S.sessions[sessionId] = Unauth THEN "qr" ELSE "qr-message"]
    /\ UNCHANGED <<up, timers, queue>>

\* the no-handle branch shared by send-message and send-media:
\* initializeClient, then socket.once('reconnected', callback)
QueueSend(kind, sessionId, op) ==
    /\ Len(queue) < MaxQueue
    /\ LET S == InitializeClient(sessionId, Tables)
       IN /\ Commit(S)
          /\ queue' = Append(queue, [sid |-> sessionId, kind |-> kind])
          /\ lastOp' = [op EXCEPT !.client = S.clients[sessionId], !.how = "queued", !.bcast = S.bcast]

\* what the requester hears after client.sendMessage settles
SendNotify(outcome) ==
    CASE outcome = "ok" -> "message-sent"
      [] outcome = "Session closed" -> "error-reconnect"
      [] outcome = "page has been closed" -> "Warning"
      [] OTHER -> "none"

SendMessage(sessionId, number, outcome) ==
    /\ up
    /\ CanInitialize(sessionId)
    /\ LET op == [Op("send-message", sessionId) EXCEPT !.number = number, !.message = <<"h", "i">>]
       IN IF clients[sessionId] = 0
          THEN /\ outcome = "ok"
               /\ QueueSend("message", sessionId, op)
          ELSE /\ UNCHANGED <<clients, objs, sessions, file, queue>>
               /\ IF ~IsPhoneNumber(number)
                  THEN /\ outcome = "ok"
                       /\ lastOp' = [op EXCEPT !.client = clients[sessionId], !.notify = "error"]
                  ELSE lastOp' = [op EXCEPT !.client = clients[sessionId],
                                            !.engine = "text",
                                            !.how = outcome,
                                            !.notify = SendNotify(outcome)]
    /\ UNCHANGED <<up, timers>>

SendMedia(sessionId, number, message, filePath, base64Data, loads, outcome) ==
    /\ up
    /\ CanInitialize(sessionId)
    /\ LET op == [Op("send-media", sessionId) EXCEPT !.number = number, !.message = message,
                     !.filePath = filePath, !.base64Data = base64Data]
           path == MediaPath(base64Data, filePath)
       IN IF clients[sessionId] = 0
          THEN /\ outcome = "ok" /\ loads
               /\ QueueSend("media", sessionId, op)
          ELSE /\ UNCHANGED <<clients, objs, sessions, file, queue>>
               /\ IF path \in {"url", "file"} /\ ~loads
                  THEN /\ outcome = "ok"
                       /\ lastOp' = [op EXCEPT !.client = clients[sessionId], !.how = "load-failed"]
                  ELSE /\ loads
                       /\ lastOp' = [op EXCEPT !.client = clients[sessionId],
                                               !.engine = path,
                                               !.how = outcome,
                                               !.notify = SendNotify(outcome)]
    /\ UNCHANGED <<up, timers>>

ReconnectSession(sessionId) ==
    /\ up
    /\ CanInitialize(sessionId)
    /\ LET S == InitializeClient(sessionId, Tables)
       IN /\ Commit(S)
          /\ lastOp' = [Op("reconnect-session", sessionId) EXCEPT
                          !.client = S.clients[sessionId], !.how = S.how, !.bcast = S.bcast]
    /\ UNCHANGED <<up, timers, queue>>

\* socket.on('disconnect'): only an emit on the closing socket
SocketDisconnect ==
    /\ up
    /\ lastOp' = [Op("disconnect", EmptyId) EXCEPT !.notify = "error"]
    /\ UNCHANGED <<up, sessions, clients, objs, file, timers, queue>>

\* destroy-session: captures clients[sessionId] now, acts 5000 ms later
DestroySession(sessionId) ==
    /\ up
    /\ Len(timers) < MaxTimers
    /\ timers' = Append(timers, [sid |-> sessionId, client |-> clients[sessionId]])
    /\ lastOp' = [Op("destroy-session", sessionId) EXCEPT !.client = clients[sessionId]]
    /\ UNCHANGED <<up, sessions, clients, objs, file, queue>>

\* the process dies: its memory, timers, listeners and browsers go with it
Exit(kind, sessionId, c) ==
    /\ up' = FALSE
    /\ sessions' = [id \in AllIds |-> NoRecord]
    /\ clients' = [id \in AllIds |-> 0]
    /\ objs' = [d \in ClientIds |-> IF objs[d].st = "unused" THEN NoObj ELSE Gone]
    /\ timers' = <<>>
    /\ queue' = <<>>
    /\ lastOp' = [Op(kind, sessionId) EXCEPT !.client = c, !.how = "exit"]
    /\ UNCHANGED file

\* a destroyed client no pending timer holds is unreachable
Forget(os, ts) ==
    [d \in ClientIds |->
        IF os[d].st = "destroyed" /\ \A i \in DOMAIN ts : ts[i].client # d
        THEN Gone ELSE os[d]]

\* the callback with its deletes outside the `if (client)` block
DestroyTimerUnguarded ==
    /\ up
    /\ timers # <<>>
    /\ LET t == Head(timers)
           op == [Op("destroy-timer", t.sid) EXCEPT !.client = t.client,
                     !.after = IF lastOp.sid = t.sid THEN lastOp.kind ELSE "none"]
       IN IF t.client # 0 /\ ~HasBrowser(objs[t.client])
          THEN Exit("destroy-timer", t.sid, t.client)
          ELSE /\ timers' = Tail(timers)
               /\ objs' = IF t.client = 0 THEN objs
                          ELSE Forget([objs EXCEPT ![t.client].st = "destroyed"], Tail(timers))
               /\ clients' = [clients EXCEPT ![t.sid] = 0]
               /\ sessions' = [sessions EXCEPT ![t.sid] = NoRecord]
               /\ lastOp' = [op EXCEPT !.how = IF t.client = 0 THEN "nothing"
                                               ELSE IF objs[t.client].st = "destroyed"
                                               THEN "destroyed-again" ELSE "destroyed"]
               /\ UNCHANGED <<up, file, queue>>

\* the setTimeout callback of destroy-session
DestroyTimer ==
    /\ up
    /\ timers # <<>>
    /\ LET t == Head(timers)
           op == [Op("destroy-timer", t.sid) EXCEPT !.client = t.client,
                     !.after = IF lastOp.sid = t.sid THEN lastOp.kind ELSE "none"]
       IN IF t.client = 0
          THEN /\ timers' = Tail(timers)
               /\ lastOp' = [op EXCEPT !.how = "nothing"]
               /\ UNCHANGED <<up, sessions, clients, objs, file, queue>>
          ELSE IF ~HasBrowser(objs[t.client])
          THEN \* client.pupBrowser is undefined: TypeError outside any try block
               Exit("destroy-timer", t.sid, t.client)
          ELSE /\ timers' = Tail(timers)
               /\ objs' = Forget([objs EXCEPT ![t.client].st = "destroyed"], Tail(timers))
               /\ clients' = [clients EXCEPT ![t.sid] = 0]
               /\ sessions' = [sessions EXCEPT ![t.sid] = NoRecord]
               /\ lastOp' = [op EXCEPT !.how = IF objs[t.client].st = "destroyed"
                                               THEN "destroyed-again" ELSE "destroyed"]
               /\ UNCHANGED <<up, file, queue>>

RECURSIVE PruneLoop(_, _, _)
\* for (const sessionId in sessions) { if (...) { push; delete } }
PruneLoop(ids, ss, removed) ==
    IF ids = <<>> THEN [sessions |-> ss, removed |-> removed]
    ELSE LET id == Head(ids)
         IN IF ss[id] # NoRecord /\ (id = <<>> \/ ~ValidSessionPattern(id))
            THEN PruneLoop(Tail(ids), [ss EXCEPT ![id] = NoRecord], removed \cup {id})
            ELSE PruneLoop(Tail(ids), ss, removed)

\* a prune that also drops the handles of the ids it removes
RemoveUnwantedSessionAndHandles ==
    /\ up
    /\ LET r == PruneLoop(IdOrder, sessions, {})
       IN /\ sessions' = r.sessions
          /\ file' = Stringify(r.sessions)
          /\ clients' = [id \in AllIds |-> IF id \in r.removed THEN 0 ELSE clients[id]]
          /\ lastOp' = [Op("remove_unwanted_session", EmptyId) EXCEPT
                          !.removed = r.removed, !.notify = "unwanted_sessions_removed"]
    /\ UNCHANGED <<up, objs, timers, queue>>

RemoveUnwantedSession ==
    /\ up
    /\ LET r == PruneLoop(IdOrder, sessions, {})
       IN /\ sessions' = r.sessions
          /\ file' = Stringify(r.sessions)
          /\ lastOp' = [Op("remove_unwanted_session", EmptyId) EXCEPT
                          !.removed = r.removed, !.notify = "unwanted_sessions_removed"]
    /\ UNCHANGED <<up, clients, objs, timers, queue>>

\* a callback that sends the text and then the media
FlushCallsTwice(q) == 2

\* the callback given to socket.once('reconnected', ...): the number of
\* engine sendMessage calls it makes (sendMediaToClient is not defined)
FlushCalls(q) == 0

\* the requester's peer emits 'reconnected' on the socket: every one-shot
\* listener is removed and called; each call rejects with a ReferenceError,
\* an unhandled rejection, on which node either goes on or exits
PeerReconnected(exits) ==
    /\ up
    /\ queue # <<>>
    /\ IF exits
       THEN Exit("peer-reconnected", queue[1].sid, 0)
       ELSE /\ queue' = <<>>
            /\ lastOp' = [Op("peer-reconnected", queue[1].sid) EXCEPT
                            !.how = "rejected",
                            !.calls = [i \in DOMAIN queue |-> FlushCalls(queue[i])]]
            /\ UNCHANGED <<up, sessions, clients, objs, file, timers>>

(* ---------------------------- engine events ----------------------------- *)
\* initialize() got its browser: client.pupBrowser is set
Launched(c) ==
    /\ up
    /\ objs[c].st = "init"
    /\ objs' = [objs EXCEPT ![c].st = "open"]
    /\ lastOp' = [Op("launched", objs[c].sid) EXCEPT !.client = c]
    /\ UNCHANGED <<up, sessions, clients, file, timers, queue>>

OnQr(c) ==
    /\ up
    /\ objs[c].st = "open"
    /\ lastOp' = [Op("qr", objs[c].sid) EXCEPT !.client = c, !.bcast = "qr"]
    /\ UNCHANGED <<up, sessions, clients, objs, file, timers, queue>>

\* the authenticated handler without its writeFileSync
OnAuthenticatedNoWrite(c) ==
    /\ up
    /\ objs[c].st = "open"
    /\ sessions' = [sessions EXCEPT ![objs[c].sid] = Auth]
    /\ lastOp' = [Op("authenticated", objs[c].sid) EXCEPT !.client = c, !.bcast = "authenticated"]
    /\ UNCHANGED <<up, clients, objs, file, timers, queue>>

OnAuthenticated(c) ==
    /\ up
    /\ objs[c].st = "open"
    /\ LET ss == [sessions EXCEPT ![objs[c].sid] = Auth]
       IN /\ sessions' = ss
          /\ file' = Stringify(ss)
    /\ lastOp' = [Op("authenticated", objs[c].sid) EXCEPT !.client = c, !.bcast = "authenticated"]
    /\ UNCHANGED <<up, clients, objs, timers, queue>>

OnReady(c) ==
    /\ up
    /\ objs[c].st = "open"
    /\ objs' = [objs EXCEPT ![c].st = "ready"]
    /\ lastOp' = [Op("ready", objs[c].sid) EXCEPT !.client = c, !.bcast = "reconnected"]
    /\ UNCHANGED <<up, sessions, clients, file, timers, queue>>

\* an auth_failure handler that calls initializeClient, as the error handler does
OnAuthFailureRetry(c) ==
    /\ up
    /\ objs[c].st = "open"
    /\ CanInitialize(objs[c].sid)
    /\ LET S == InitializeClient(objs[c].sid, Tables)
       IN /\ Commit(S)
          /\ lastOp' = [Op("auth_failure", objs[c].sid) EXCEPT
                          !.client = c, !.bcast = "error", !.how = S.how]
    /\ UNCHANGED <<up, timers, queue>>

OnAuthFailure(c) ==
    /\ up
    /\ objs[c].st = "open"
    /\ objs' = [objs EXCEPT ![c].st = "open"]
    /\ lastOp' = [Op("auth_failure", objs[c].sid) EXCEPT !.client = c, !.bcast = "error"]
    /\ UNCHANGED <<up, sessions, clients, file, timers, queue>>

OnPageError(c) ==
    /\ up
    /\ objs[c].st \in {"open", "ready"}
    /\ lastOp' = [Op("page_error", objs[c].sid) EXCEPT !.client = c, !.bcast = "error"]
    /\ UNCHANGED <<up, sessions, clients, objs, file, timers, queue>>

\* client.on('error'): recoverable = the message includes 'Execution context was destroyed'
OnError(c, recoverable) ==
    /\ up
    /\ objs[c].st \in {"open", "ready"}
    /\ recoverable => CanInitialize(objs[c].sid)
    /\ LET D == [Tables EXCEPT !.objs[c].st = "open"]
           S == IF recoverable THEN InitializeClient(objs[c].sid, D) ELSE D
       IN /\ Commit(S)
          /\ lastOp' = [Op("error", objs[c].sid) EXCEPT
                          !.client = c, !.bcast = "error",
                          !.how = IF recoverable THEN S.how ELSE "notified"]
    /\ UNCHANGED <<up, timers, queue>>

\* client.on('disconnected'): initializeClient('')
OnDisconnected(c) ==
    /\ up
    /\ objs[c].st \in {"open", "ready"}
    /\ CanInitialize(EmptyId)
    /\ LET D == [Tables EXCEPT !.objs[c].st = "open"]
           S == InitializeClient(EmptyId, D)
       IN /\ Commit(S)
          /\ lastOp' = [Op("disconnected", objs[c].sid) EXCEPT
                          !.client = c, !.bcast = S.bcast, !.how = S.how]
    /\ UNCHANGED <<up, timers, queue>>

\* the process is started (again): lines 22-32 run
Start ==
    /\ up' = TRUE
    /\ sessions' = Load(file)
    /\ clients' = [id \in AllIds |-> 0]
    /\ objs' = [d \in ClientIds |-> IF objs[d].st = "unused" THEN NoObj ELSE Gone]
    /\ timers' = <<>>
    /\ queue' = <<>>
    /\ lastOp' = Op("start", EmptyId)
    /\ UNCHANGED file

Next ==
    \/ \E s \in RequestIds : GetQr(s)
    \/ \E s \in RequestIds : SendMessage(s, <<"1">>, "ok")
    \/ \E s \in RequestIds : SendMedia(s, <<"1">>, <<"h", "i">>, Undef, Undef, TRUE, "ok")
    \/ \E s \in RequestIds : ReconnectSession(s)
    \/ SocketDisconnect
    \/ \E s \in RequestIds : DestroySession(s)
    \/ DestroyTimer
    \/ RemoveUnwantedSession
    \/ \E x \in BOOLEAN : PeerReconnected(x)
    \/ \E c \in ClientIds : Launched(c)
    \/ \E c \in ClientIds : OnQr(c)
    \/ \E c \in ClientIds : OnAuthenticated(c)
    \/ \E c \in ClientIds : OnReady(c)
    \/ \E c \in ClientIds : OnAuthFailure(c)
    \/ \E c \in ClientIds : OnPageError(c)
    \/ \E c \in ClientIds, r \in BOOLEAN : OnError(c, r)
    \/ \E c \in ClientIds : OnDisconnected(c)
    \/ Start

Spec == Init /\ [][Next]_vars

\* the send handlers over every input, on a session that is created,
\* launched and made ready
SendNext ==
    \/ \E s \in RequestIds : GetQr(s)
    \/ \E c \in ClientIds : Launched(c)
    \/ \E c \in ClientIds : OnReady(c)
    \/ \E s \in RequestIds, n \in Numbers, o \in Outcomes : SendMessage(s, n, o)
    \/ \E s \in RequestIds, n \in MediaNumbers, m \in Messages, f \in FilePaths, b \in Base64s,
          l \in BOOLEAN, o \in Outcomes : SendMedia(s, n, m, f, b, l, o)

SendSpec == Init /\ [][SendNext]_vars

TypeOK ==
    /\ up \in BOOLEAN
    /\ sessions \in [AllIds -> {NoRecord, Unauth, Auth}]
    /\ clients \in [AllIds -> {0} \cup ClientIds]
    /\ \A c \in ClientIds : objs[c].sid \in AllIds
    /\ Len(timers) <= MaxTimers
    /\ Len(queue) <= MaxQueue

(* ------------------------------- claims -------------------------------- *)
Digits == {"0", "1", "2", "3", "4", "5", "6", "7", "8", "9"}
CreateKinds == {"get-qr", "send-message", "send-media", "reconnect-session"}
Constructed(os) == {c \in ClientIds : os[c].st # "unused"}
HasRecordIn(f, id) == \E b \in BOOLEAN : <<id, b>> \in f.doc
NotADigitString(n) == n = <<>> \/ \E i \in 1..Len(n) : n[i] \notin Digits
BeginsSession_(id) == Len(id) >= 8 /\ \A i \in 1..8 : id[i] = SessionPrefix[i]

\* C1: when a session-creating request that constructed the client for an id
\* is followed at once by another session-creating request for the same id,
\* the second constructs nothing: the table keeps the one handle and the set
\* of constructed clients does not grow.
C1_OneClientForBackToBackRequests ==
    [][(/\ lastOp.kind \in CreateKinds
        /\ lastOp.how \in {"created", "queued"}
        /\ lastOp'.kind \in CreateKinds
        /\ lastOp'.sid = lastOp.sid)
       => (/\ clients[lastOp.sid] # 0
           /\ clients'[lastOp.sid] = clients[lastOp.sid]
           /\ Constructed(objs') = Constructed(objs))]_vars

\* a reconnect-session reached initializeClient while the client of the id was still initializing
C1_Witness ==
    /\ lastOp.kind = "reconnect-session"
    /\ lastOp.how = "initialize-again"
    /\ clients[lastOp.sid] # 0
    /\ objs[clients[lastOp.sid]].st = "init"
    /\ Cardinality(Constructed(objs)) = 1

\* C2: right after the 'authenticated' handler of a session has run, the
\* document on disk maps the session id to authenticated=true, and loading
\* it yields authenticated=true for that id.
C2_AuthenticatedIsPersisted ==
    lastOp.kind = "authenticated" =>
        /\ file.kind = "json"
        /\ <<lastOp.sid, TRUE>> \in file.doc
        /\ <<lastOp.sid, FALSE>> \notin file.doc
        /\ Load(file)[lastOp.sid] = Auth

\* the client of a session whose record said unauthenticated has authenticated
C2_Witness ==
    /\ lastOp.kind = "authenticated"
    /\ lastOp.sid = SessionA
    /\ sessions[SessionA] = Auth
    /\ clients[SessionA] = lastOp.client

\* C3: once the one-shot listener of a send queued for a session has run and
\* the session's client is Ready, the queued send has been handed to the
\* engine (the listener is the only holder of the queued send).
C3_QueuedSendReachesEngine ==
    (/\ lastOp.kind = "peer-reconnected"
     /\ lastOp.how = "rejected"
     /\ clients[lastOp.sid] # 0
     /\ objs[clients[lastOp.sid]].st = "ready")
    => \A i \in DOMAIN lastOp.calls : lastOp.calls[i] >= 1

\* C4: the listener of a queued send makes at most one engine send call for
\* it, and it is removed when it has run.
C4_QueuedSendFlushedAtMostOnce ==
    lastOp.kind = "peer-reconnected" =>
        /\ \A i \in DOMAIN lastOp.calls : lastOp.calls[i] <= 1
        /\ lastOp.how = "rejected" => queue = <<>>

\* the listener of a queued send has run after its session became Ready
C4_Witness ==
    /\ lastOp.kind = "peer-reconnected"
    /\ lastOp.how = "rejected"
    /\ Len(lastOp.calls) >= 1
    /\ clients[lastOp.sid] # 0
    /\ objs[clients[lastOp.sid]].st = "ready"
    /\ queue = <<>>

\* C5: when the destroy timer of a session fires right after a
\* session-creating request for that session (a request inside the grace
\* window), the session is left with a handle, and its client is not the one
\* torn down.
C5_FreshHandleAfterGraceWindow ==
    (/\ lastOp.kind = "destroy-timer"
     /\ lastOp.how = "destroyed"
     /\ lastOp.after \in CreateKinds)
    => (clients[lastOp.sid] # 0 /\ clients[lastOp.sid] # lastOp.client)

\* C6: a send-message on a session with a handle whose number is empty or
\* holds a non-digit makes no engine call and answers with an error.
C6_BadNumberNeverReachesEngine ==
    (/\ lastOp.kind = "send-message"
     /\ lastOp.how # "queued"
     /\ NotADigitString(lastOp.number))
    => (lastOp.engine = "none" /\ lastOp.notify = "error")

\* a send-message with a digit followed by a letter on a session that has a handle
C6_Witness ==
    /\ lastOp.kind = "send-message"
    /\ lastOp.how # "queued"
    /\ lastOp.number = <<"1", "a">>
    /\ lastOp.client # 0
    /\ lastOp.notify = "error"

\* C7: a send-media on a session with a handle whose number holds a
\* non-digit makes no engine call.
C7_MediaBadNumberNeverReachesEngine ==
    (/\ lastOp.kind = "send-media"
     /\ lastOp.how # "queued"
     /\ NotADigitString(lastOp.number))
    => lastOp.engine = "none"

\* C8: the payload a send-media hands to the engine is the inline payload if
\* base64Data is given, else the media fetched from a URL filePath, else the
\* media read from a local filePath, else the message text.
C8_MediaPrecedence ==
    (lastOp.kind = "send-media" /\ lastOp.engine # "none") =>
        LET inline == lastOp.base64Data = <<"Q", "Q">>
            url == lastOp.filePath = <<"h", "t", "t", "p", ":", "x">>
            local == lastOp.filePath = <<"/", "x">>
        IN /\ inline => lastOp.engine = "inline"
           /\ (~inline /\ url) => lastOp.engine = "url"
           /\ (~inline /\ local) => lastOp.engine = "file"
           /\ (~inline /\ ~url /\ ~local) => lastOp.engine = "text"

\* base64Data together with a filePath: the inline payload went to the engine
C8_Witness ==
    /\ lastOp.kind = "send-media"
    /\ lastOp.base64Data = <<"Q", "Q">>
    /\ lastOp.filePath = <<"h", "t", "t", "p", ":", "x">>
    /\ lastOp.engine = "inline"

\* C9: remove_unwanted_session removes exactly the records whose id does not
\* begin with 'session_', keeps the others as they were, reports exactly the
\* removed ids, and leaves on disk exactly the kept records.
C9_PruneRemovesExactlyInvalid ==
    [][lastOp'.kind = "remove_unwanted_session" =>
        /\ \A id \in AllIds :
              sessions'[id] = IF BeginsSession_(id) THEN sessions[id] ELSE NoRecord
        /\ lastOp'.removed = {id \in AllIds : sessions[id] # NoRecord /\ ~BeginsSession_(id)}
        /\ file'.kind = "json"
        /\ \A id \in AllIds :
              /\ HasRecordIn(file', id) <=> (sessions[id] # NoRecord /\ BeginsSession_(id))
              /\ Load(file')[id] = sessions'[id]]_vars

\* a prune that removed 'xsession_' and '' and kept 'session_a'
C9_Witness ==
    /\ lastOp.kind = "remove_unwanted_session"
    /\ lastOp.removed = {XSession, EmptyId}
    /\ sessions[SessionA] # NoRecord
    /\ file.doc = {<<SessionA, sessions[SessionA] = Auth>>}

\* C10: once the grace timer of a destroy-session for a session with a handle
\* has torn the client down, the session has no handle, no record in memory
\* and no record in the document on disk.
C10_DestroyRemovesEverywhere ==
    (lastOp.kind = "destroy-timer" /\ lastOp.how = "destroyed") =>
        /\ clients[lastOp.sid] = 0
        /\ sessions[lastOp.sid] = NoRecord
        /\ ~HasRecordIn(file, lastOp.sid)
        /\ Load(file)[lastOp.sid] = NoRecord

\* C11: the timer of a destroy-session made for an id that had no handle
\* changes nothing: the clients table, the session table and the document
\* on disk stay as they were, no client is touched and nothing is emitted.
C11_DestroyUnknownIsNoOp ==
    [][(lastOp'.kind = "destroy-timer" /\ lastOp'.client = 0) =>
        /\ clients' = clients
        /\ sessions' = sessions
        /\ file' = file
        /\ objs' = objs
        /\ up'
        /\ lastOp'.notify = "none"
        /\ lastOp'.bcast = "none"]_vars

\* such a timer has fired while the id had a record, and the record is still there
C11_Witness ==
    /\ lastOp.kind = "destroy-timer"
    /\ lastOp.client = 0
    /\ lastOp.how = "nothing"
    /\ sessions[lastOp.sid] # NoRecord

\* C12: the 'disconnected' handler of the client of session s leaves every
\* other id, the empty one included, without a handle and without a record
\* if it had none before.
C12_DisconnectTouchesOnlyItsSession ==
    [][lastOp'.kind = "disconnected" =>
        \A id \in AllIds \ {lastOp'.sid} :
            /\ clients[id] = 0 => clients'[id] = 0
            /\ sessions[id] = NoRecord => sessions'[id] = NoRecord]_vars

\* C13: a send-message or send-media whose engine send call fails, whatever
\* the failure, answers the requester with an error or a warning.
C13_SendFailureIsNotified ==
    (/\ lastOp.kind \in {"send-message", "send-media"}
     /\ lastOp.engine # "none"
     /\ lastOp.how \in {"Session closed", "page has been closed", "other"})
    => lastOp.notify \in {"error", "error-reconnect", "Warning"}

\* C14: every engine client that has been constructed and not torn down is
\* the one the clients table holds for its session id (so there is at most
\* one per id).
C14_LiveClientIsTheHandle ==
    \A c \in ClientIds : Live(objs[c]) => clients[objs[c].sid] = c

\* C15: a destroy timer whose captured client has already been torn down is
\* a no-op: it does not tear the client down again and it removes no handle
\* and no record.
C15_TeardownAtMostOnce ==
    [][(/\ lastOp'.kind = "destroy-timer"
        /\ lastOp'.client # 0
        /\ objs[lastOp'.client].st = "destroyed")
       => (/\ lastOp'.how # "destroyed-again"
           /\ clients' = clients
           /\ sessions' = sessions)]_vars

\* C16: a session-creating request for an id whose record says
\* authenticated=true leaves that record saying authenticated=true.
C16_CreateKeepsAuthenticated ==
    [][(lastOp'.kind \in CreateKinds /\ sessions[lastOp'.sid] = Auth)
       => sessions'[lastOp'.sid] = Auth]_vars

\* C17: whenever a send-message or send-media makes an engine send call, the
\* client of the session is Ready.
C17_EngineCallOnlyWhenReady ==
    (lastOp.kind \in {"send-message", "send-media"} /\ lastOp.engine # "none")
    => objs[lastOp.client].st = "ready"

\* C18: after the handler of a recoverable engine error or of a disconnect
\* of the client of session s, the handle of s is a newly constructed client
\* and the old client has been torn down.
C18_FaultRebuildsHandle ==
    (\/ lastOp.kind = "error" /\ lastOp.how # "notified"
     \/ lastOp.kind = "disconnected")
    => (/\ clients[lastOp.sid] # 0
        /\ clients[lastOp.sid] # lastOp.client
        /\ ~Live(objs[lastOp.client]))

\* C19: remove_unwanted_session changes only session records: the clients
\* table is unchanged and no engine client changes state, also for clients
\* whose session id fails the 'session_' pattern.
C19_PruneLeavesHandles ==
    [][lastOp'.kind = "remove_unwanted_session" =>
        /\ clients' = clients
        /\ objs' = objs
        /\ timers' = timers
        /\ queue' = queue]_vars

C19_Witness ==
    /\ lastOp.kind = "remove_unwanted_session"
    /\ EmptyId \in lastOp.removed
    /\ sessions[EmptyId] = NoRecord
    /\ clients[EmptyId] # 0
    /\ Live(objs[clients[EmptyId]])

\* C20: handling 'auth_failure' for session s only broadcasts the error: it
\* makes no initialize call, constructs no client and changes neither the
\* clients table nor the session records nor their file.
C20_AuthFailureOnlyNotifies ==
    [][lastOp'.kind = "auth_failure" =>
        /\ clients' = clients
        /\ objs' = objs
        /\ sessions' = sessions
        /\ file' = file
        /\ lastOp'.how = "none"
        /\ lastOp'.bcast = "error"]_vars

C20_Witness ==
    /\ lastOp.kind = "auth_failure"
    /\ lastOp.bcast = "error"
    /\ lastOp.how = "none"
    /\ clients[lastOp.sid] = lastOp.client
    /\ objs[lastOp.client].st = "open"

====
